---- MODULE Spec2Model ----
(***************************************************************************)
(* Lifecycle of the integration-test Daemon (integration-cli/daemon.go):   *)
(* Start / StartWithLogFile with its readiness loop, Kill, Stop with its   *)
(* 15s window and escalation loop, Restart, the exit-watcher goroutine of  *)
(* every launched subprocess, and the daemon subprocess itself.            *)
(*                                                                         *)
(* Time is counted in units of 500ms (the period of the readiness ticker). *)
(* A blocked select is resolved by the arm that becomes ready first; when  *)
(* several arms are ready on entry Go picks any of them.                   *)
(***************************************************************************)
EXTENDS Integers, Sequences, FiniteSets, TLC

\* ---------------------------------------------------------------- bounds
\* Number of exec.Command values (subprocess launches) one behaviour may create.
MaxRuns == 2
\* Longest duration of one client.Do(/_ping), in units (http.Client has no Timeout).
MaxPingDur == 5
\* Largest number of caller-supplied extra arguments of one Start.
MaxArgs == 2
\* Number of LoadBusybox calls one behaviour may make.
MaxLoads == 2

\* ------------------------------------------------------ program constants
\* time.Tick(500 * time.Millisecond): one unit.
TickInterval == 1
\* time.After(2 * time.Second), in units.
AttemptTimeout == 4
\* time.Now().Unix()-startTime > 5, in whole seconds.
StartDeadlineSecs == 5
\* units per second (Unix() truncates to whole seconds).
UnitsPerSec == 2
\* time.After(15 * time.Second), in units.
StopWindow == 30
\* time.Tick(time.Second), in units.
StopTickInterval == 2
\* if i > 4 { ... break out2 }
MaxAttempt == 4

Runs == 1..MaxRuns

\* ------------------------------------------------------------------ paths
\* A path is the sequence of its elements; an absolute path starts with "/",
\* the empty string is <<>> and the current directory is <<".">>.
daemonFolder == <<"/", "d">>
\* NewDaemon: daemonRoot := filepath.Join(daemonFolder, "root")
daemonRoot == Append(daemonFolder, "root")

\* filepath.Dir: "" and single relative elements give ".", "/" gives "/".
Dir(p) ==
  IF Len(p) = 0 THEN <<".">>
  ELSE IF Len(p) = 1 THEN (IF p[1] = "/" THEN p ELSE <<".">>)
  ELSE SubSeq(p, 1, Len(p) - 1)

VARIABLES
  useDefaultTLSHost,  \* Daemon.useDefaultTLSHost
  tlsFixtures,        \* tlsconfig.Client can load fixtures/https/*.pem
  remapRoot,          \* whether DOCKER_REMAP_ROOT is set (non-empty)
  cmd,                \* Daemon.cmd: 0 is nil, r the exec.Cmd of launch r
  wait,               \* Daemon.wait: 0 is nil, r the channel made for launch r
  logFile,            \* Daemon.logFile: 0 is nil, r the file opened for launch r
  root,               \* Daemon.root
  runs,               \* number of exec.Command values created so far
  lastGraph,          \* the --graph argument of the latest launch
  proc,               \* proc[r]: state of the subprocess of launch r
  watcher,            \* watcher[r]: position of the exit-watcher goroutine of launch r
  closes,             \* closes[r]: number of Close calls made on log file r
  pc,                 \* where the (single) caller is
  inRestart,          \* the caller is inside Restart
  st,                 \* frame of the running / last Start
  sp,                 \* frame of the running / last Stop or Kill
  last,               \* the operation that returned last, and its result
  useDefaultHost,     \* Daemon.useDefaultHost
  envUserlandProxy,   \* os.Getenv("DOCKER_USERLANDPROXY")
  userlandProxy,      \* Daemon.userlandProxy
  storageDriver,      \* Daemon.storageDriver (os.Getenv("DOCKER_GRAPHDRIVER"))
  providedArgs,       \* the extra arguments given to Start
  args,               \* the argument vector StartWithLogFile builds
  bb,                 \* <folder>/busybox.tar and the last LoadBusybox call
  hpc                 \* where the construction / argument / busybox steps are

\* What the lifecycle operations (Start, Stop, Kill, Restart) neither read nor
\* write in this model.
setupVars == <<useDefaultHost, envUserlandProxy, userlandProxy, storageDriver,
               providedArgs, args, bb, hpc>>

\* What the lifecycle operations write.
lifeVars == <<cmd, wait, logFile, root, runs, lastGraph, proc, watcher, closes, pc,
              inRestart, st, sp, last>>

vars == <<useDefaultTLSHost, tlsFixtures, remapRoot, cmd, wait, logFile, root, runs, lastGraph,
          proc, watcher, closes, pc, inRestart, st, sp, last, setupVars>>

envVars == <<useDefaultTLSHost, tlsFixtures, remapRoot, setupVars>>

NoPath == <<"?">>

\* The frame of an operation that has not run.
NoStart ==
  [run |-> 0, phase |-> 0, el |-> 0, tickBuf |-> FALSE, pingOk |-> FALSE,
   ping |-> "none", slow |-> FALSE, reported |-> FALSE, exited |-> FALSE,
   exitAvail |-> FALSE, info |-> "none",
   gaveUpAt |-> -1, viaRestart |-> FALSE, prevGraph |-> NoPath]

NoStop ==
  [target |-> 0, passed |-> FALSE, i |-> 0, el |-> 0, tickBuf |-> FALSE,
   sigs |-> 0, escSigs |-> 0, kills |-> 0, killAt |-> -1, firstEscAt |-> -1,
   rms |-> 0, rmFailed |-> FALSE, exitedAtRet |-> FALSE, afterStop |-> FALSE]

NoOp == [op |-> "none", res |-> "none"]

\* No argument vector built yet.
NoArgs == [base |-> <<>>, provided |-> <<>>]

\* busybox.tar does not exist and LoadBusybox has not been called.
NoBusybox ==
  [archive |-> FALSE, calls |-> 0, archiveBefore |-> FALSE, afterFailedLoad |-> FALSE,
   exported |-> FALSE, imported |-> FALSE, loadOk |-> FALSE, removed |-> FALSE,
   res |-> "none"]

\* ------------------------------------------------------------ environment
\* The daemon's own report of its root directory (GET /info, DockerRootDir):
\* the absolute graph directory, plus the "uid.gid" level when the daemon runs
\* with --userns-remap.
AbsPath(p) ==
  IF Len(p) = 0 THEN <<"/", "var">>
  ELSE IF p[1] = "/" THEN p
  ELSE <<"/", "cwd">>

DockerRootDir(g) ==
  IF remapRoot THEN Append(AbsPath(g), "uid.gid") ELSE AbsPath(g)

\* A receive on channel r can proceed: the watcher is blocked in its send, or
\* the channel has been closed.  A nil channel (0) blocks forever.
WaitReady(r) == r # 0 /\ watcher[r] \in {"sending", "closed"}

\* A variant in which the watcher offers its value again after a receive.
WatcherAfterRecvSendsAgain(r) == watcher

\* What a receive on channel r does to the watcher: a blocked send completes.
WatcherAfterRecv(r) ==
  IF watcher[r] = "sending" THEN [watcher EXCEPT ![r] = "sent"] ELSE watcher

\* The subprocess of launch r has ended.
Exited(r) == proc[r] \in {"exited", "reaped"}

\* The instance as NewDaemon returns it (the lifecycle part).
InitLife ==
  /\ cmd = 0
  /\ wait = 0
  /\ logFile = 0
  /\ root = daemonRoot
  /\ runs = 0
  /\ lastGraph = NoPath
  /\ proc = [r \in Runs |-> "unborn"]
  /\ watcher = [r \in Runs |-> "none"]
  /\ closes = [r \in Runs |-> 0]
  /\ pc = "idle"
  /\ inRestart = FALSE
  /\ st = NoStart
  /\ sp = NoStop
  /\ last = NoOp

Init ==
  /\ useDefaultTLSHost \in BOOLEAN
  /\ tlsFixtures \in BOOLEAN
  /\ (~useDefaultTLSHost => tlsFixtures)
  /\ remapRoot \in BOOLEAN
  /\ InitLife
  /\ useDefaultHost = FALSE
  /\ envUserlandProxy = ""
  /\ userlandProxy = TRUE
  /\ storageDriver = ""
  /\ providedArgs = <<>>
  /\ args = NoArgs
  /\ bb = NoBusybox
  /\ hpc = "off"

\* ------------------------------------------------------ returning to caller
\* An operation returns with result res: Start (also as the tail of Restart)
\* gives control back to the test; Stop gives it back to the test, or to the
\* Restart that called it (rs).
ReturnTo(op, res, rs) ==
  /\ last' = [op |-> op, res |-> res]
  /\ pc' = IF op = "Stop" /\ rs THEN "restart_start" ELSE "idle"
  /\ inRestart' = (op = "Stop" /\ rs)

\* A panic unwinds the caller: nothing more is called on this instance.
PanicIn(op) ==
  /\ last' = [op |-> op, res |-> "panic"]
  /\ pc' = "panicked"
  /\ inRestart' = FALSE

\* ------------------------------------------------------------------ Start
\* getClientConfig fails only when the TLS client configuration cannot be built.
getClientConfig == IF useDefaultTLSHost /\ ~tlsFixtures THEN "err" ELSE "ok"

\* Variants of the deadline check that give up one second late / early.
DeadlineExceededLate(f) ==
  ((f.phase + f.el) \div UnitsPerSec) - (f.phase \div UnitsPerSec) > StartDeadlineSecs + 1

DeadlineExceededEarly(f) ==
  ((f.phase + f.el) \div UnitsPerSec) - (f.phase \div UnitsPerSec) >= StartDeadlineSecs

\* time.Now().Unix()-startTime > 5, both truncated to whole seconds.
DeadlineExceeded(f) ==
  ((f.phase + f.el) \div UnitsPerSec) - (f.phase \div UnitsPerSec) > StartDeadlineSecs

\* The arm that ends a select entered with d.wait not ready: a buffered tick is
\* taken at once; otherwise the ticker and the time.After timer race and the
\* earlier one wins.
TimerArm(buffered) ==
  IF buffered \/ TickInterval <= AttemptTimeout THEN "tick" ELSE "timeout"

\* Results of client.Do(GET /_ping): only a running daemon can answer.
PingOutcomes(r) ==
  IF proc[r] = "running" THEN {"err", "ok200", "okOther"} ELSE {"err"}

\* A variant that goes on polling after a status other than 200.
PingCountsAsUpOnly200(ping) == ping = "ok200"

\* if err != nil { continue }; a status other than 200 is only logged.
PingCountsAsUp(ping) == ping # "err"

\* Results of queryRootDir's getClientConfig and /info exchange: only a running
\* daemon can answer.
InfoOutcomes(r) ==
  IF getClientConfig = "err" THEN {"cfg_err"}
  ELSE IF proc[r] = "running"
  THEN {"transport_err", "read_err", "non200", "bad_json", "ok"}
  ELSE {"transport_err"}

\* queryRootDir: the directory and whether an error is returned.  A non-200
\* answer whose body was read leaves err == nil and returns ("", nil).
queryRootDir(info, g) ==
  IF info = "ok" THEN [dir |-> DockerRootDir(g), err |-> FALSE]
  ELSE IF info = "non200" THEN [dir |-> <<>>, err |-> FALSE]
  ELSE [dir |-> <<>>, err |-> TRUE]

\* Start / StartWithLogFile up to the readiness loop, entered with d.root = r0.
StartBegin(r0) ==
  LET k == runs + 1
      f0 == [NoStart EXCEPT !.run = k, !.viaRestart = (pc = "restart_start"),
                            !.prevGraph = lastGraph]
  IN
  /\ runs < MaxRuns
  /\ runs' = k
  /\ root' = r0
  /\ lastGraph' = r0
  /\ cmd' = k
  /\ logFile' = k
  /\ sp' = NoStop
  /\ UNCHANGED <<envVars, closes>>
  /\ \/ \* d.cmd.Start() fails: d.wait keeps its old value
        /\ proc' = [proc EXCEPT ![k] = "nospawn"]
        /\ st' = f0
        /\ ReturnTo("Start", "spawn_failed", FALSE)
        /\ UNCHANGED <<wait, watcher>>
     \/ \E ph \in 0..(UnitsPerSec - 1) :
        /\ proc' = [proc EXCEPT ![k] = "running"]
        /\ watcher' = [watcher EXCEPT ![k] = "waiting"]
        /\ wait' = k
        /\ st' = [f0 EXCEPT !.phase = ph]
        /\ pc' = "start_loop"
        /\ last' = NoOp
        /\ inRestart' = FALSE

Start ==
  /\ pc = "idle"
  /\ StartBegin(root)

\* The frame when StartWithLogFile returns: its locals (tick, startTime, resp)
\* end with the call; what is recorded is whether the subprocess had ended and
\* whether its exit was ready to be received on d.wait.
Returned(f) ==
  [f EXCEPT !.phase = 0, !.el = 0, !.tickBuf = FALSE, !.ping = "none",
            !.slow = FALSE,
            !.exited = Exited(f.run), !.exitAvail = WaitReady(wait)]

\* Loop head: after the deadline, give up.
StartGiveUp ==
  /\ pc = "start_loop"
  /\ DeadlineExceeded(st)
  /\ st' = [Returned(st) EXCEPT !.gaveUpAt = st.el]
  /\ ReturnTo("Start", "never_started", FALSE)
  /\ UNCHANGED <<envVars, cmd, wait, logFile, root, runs, lastGraph, proc, watcher,
                 closes, sp>>

\* A variant of the d.wait arm that goes on polling instead of returning.
StartWaitArmContinues ==
  /\ pc = "start_loop"
  /\ ~DeadlineExceeded(st)
  /\ WaitReady(wait)
  /\ watcher' = WatcherAfterRecv(wait)
  /\ UNCHANGED <<envVars, cmd, wait, logFile, root, runs, lastGraph, proc, closes,
                 sp, st, pc, inRestart, last>>

\* case <-d.wait
StartWaitArm ==
  /\ pc = "start_loop"
  /\ ~DeadlineExceeded(st)
  /\ WaitReady(wait)
  /\ watcher' = WatcherAfterRecv(wait)
  /\ st' = Returned(st)
  /\ ReturnTo("Start", "exited_during_startup", FALSE)
  /\ UNCHANGED <<envVars, cmd, wait, logFile, root, runs, lastGraph, proc, closes, sp>>

\* case <-time.After(2s) / case <-tick, up to the answer to the ping
StartTimerArm ==
  /\ pc = "start_loop"
  /\ ~DeadlineExceeded(st)
  /\ st.tickBuf \/ ~WaitReady(wait)
  /\ UNCHANGED <<envVars, cmd, wait, logFile, root, runs, lastGraph, proc, watcher,
                 closes, sp>>
  /\ LET at == IF st.tickBuf THEN st.el ELSE st.el + TickInterval IN
     IF TimerArm(st.tickBuf) = "timeout"
     THEN /\ st' = Returned(st)
          /\ ReturnTo("Start", "timeout", FALSE)
     ELSE IF getClientConfig = "err"
          THEN /\ st' = Returned(st)
               /\ ReturnTo("Start", "cfg_error", FALSE)
          ELSE \E dur \in 0..MaxPingDur, ping \in PingOutcomes(st.run) :
               /\ UNCHANGED <<inRestart, last>>
               /\ IF ~PingCountsAsUp(ping)
                  THEN /\ st' = [st EXCEPT !.el = at + dur,
                                           !.tickBuf = (dur >= TickInterval),
                                           !.pingOk = st.pingOk \/ ping # "err",
                                           !.ping = ping,
                                           !.slow = (dur > AttemptTimeout)]
                       /\ pc' = pc
                  ELSE \* "daemon started" is logged
                       /\ st' = [st EXCEPT !.el = at + dur, !.tickBuf = FALSE,
                                           !.pingOk = st.pingOk \/ ping # "err",
                                           !.ping = ping,
                                           !.slow = (dur > AttemptTimeout),
                                           !.reported = TRUE]
                       /\ pc' = "start_query"

\* d.root, err = d.queryRootDir(), and the return that follows
StartQuery ==
  /\ pc = "start_query"
  /\ \E info \in InfoOutcomes(st.run) :
     LET q == queryRootDir(info, lastGraph) IN
     /\ st' = [Returned(st) EXCEPT !.info = info]
     /\ root' = q.dir
     /\ ReturnTo("Start", IF q.err THEN "info_error" ELSE "nil", FALSE)
  /\ UNCHANGED <<envVars, cmd, wait, logFile, runs, lastGraph, proc, watcher,
                 closes, sp>>

\* ------------------------------------------------------------ Stop and Kill
\* Results of d.cmd.Process.Signal / Process.Kill on the Cmd of launch r: a nil
\* Process (the spawn failed) is dereferenced; a subprocess that has been waited
\* for gives "os: process already finished"; otherwise kill(2) decides.
SignalOutcomes(r) ==
  IF proc[r] = "nospawn" THEN {"panic"}
  ELSE IF proc[r] = "reaped" THEN {"finished"}
  ELSE {"ok", "fail"}

\* Results of os.Remove(<folder>/docker.pid).
RemoveOutcomes == {"ok", "fail"}

\* SIGKILL delivered to the subprocess of launch r.
ProcAfterKill(r) ==
  IF proc[r] = "running" THEN [proc EXCEPT ![r] = "exited"] ELSE proc

\* A variant of the deferred function that forgets d.cmd = nil.
DeferredKeepsCmd ==
  /\ closes' = [closes EXCEPT ![logFile] = @ + 1]
  /\ cmd' = cmd

\* defer func() { d.logFile.Close(); d.cmd = nil }()
Deferred ==
  /\ closes' = [closes EXCEPT ![logFile] = @ + 1]
  /\ cmd' = 0

\* The guard of Stop and Kill.
NotStarted == cmd = 0 \/ wait = 0

\* The time of the next tick of time.Tick(time.Second) after el.
NextStopTick(el) == ((el \div StopTickInterval) + 1) * StopTickInterval

\* Stop from its entry to the first select; rs: called by Restart.
StopEnter(rs) ==
  /\ st' = NoStart
  /\ UNCHANGED <<envVars, wait, logFile, root, runs, lastGraph, watcher, proc>>
  /\ IF NotStarted
     THEN /\ sp' = [NoStop EXCEPT !.afterStop = (last.op = "Stop")]
          /\ ReturnTo("Stop", "not_started", rs)
          /\ UNCHANGED <<cmd, closes>>
     ELSE \E s \in SignalOutcomes(cmd) :
          LET f == [NoStop EXCEPT !.target = cmd, !.passed = TRUE, !.i = 1,
                                  !.afterStop = (last.op = "Stop")] IN
          IF s = "ok"
          THEN /\ sp' = [f EXCEPT !.sigs = 1]
               /\ pc' = "stop_window"
               /\ last' = NoOp
               /\ inRestart' = rs
               /\ UNCHANGED <<cmd, closes>>
          ELSE /\ sp' = [f EXCEPT !.exitedAtRet = Exited(cmd)]
               /\ Deferred
               /\ IF s = "panic" THEN PanicIn("Stop")
                  ELSE ReturnTo("Stop", "signal_error", rs)

Stop ==
  /\ pc = "idle"
  /\ StopEnter(FALSE)

\* out1 / out2: case err := <-d.wait: return err
StopWaitArm ==
  /\ pc \in {"stop_window", "stop_escalate"}
  /\ WaitReady(wait)
  /\ watcher' = WatcherAfterRecv(wait)
  /\ sp' = [sp EXCEPT !.exitedAtRet = Exited(sp.target)]
  /\ Deferred
  /\ ReturnTo("Stop", "exit_result", inRestart)
  /\ UNCHANGED <<envVars, wait, logFile, root, runs, lastGraph, proc, st>>

\* out1: case <-time.After(15 * time.Second): break out1
StopWindowTimeout ==
  /\ pc = "stop_window"
  /\ ~WaitReady(wait)
  /\ sp' = [sp EXCEPT !.el = sp.el + StopWindow,
                      !.tickBuf = (StopWindow >= StopTickInterval)]
  /\ pc' = "stop_escalate"
  /\ UNCHANGED <<envVars, cmd, wait, logFile, root, runs, lastGraph, proc, watcher,
                 closes, inRestart, st, last>>

\* A variant of the tail of Stop that drops the error of os.Remove.
StopKillDropsRemoveError(f) ==
  \E k \in SignalOutcomes(sp.target) :
    /\ Deferred
    /\ watcher' = watcher
    /\ IF k = "ok"
       THEN /\ proc' = ProcAfterKill(sp.target)
            /\ \E rm \in RemoveOutcomes :
               /\ sp' = [f EXCEPT !.kills = 1, !.killAt = f.el, !.rms = 1,
                                  !.rmFailed = (rm = "fail"),
                                  !.exitedAtRet = TRUE]
               /\ ReturnTo("Stop", "nil", inRestart)
       ELSE /\ proc' = proc
            /\ sp' = [f EXCEPT !.kills = 1, !.killAt = f.el,
                               !.exitedAtRet = Exited(sp.target)]
            /\ ReturnTo("Stop", "kill_error", inRestart)

\* The tail of Stop: Process.Kill, os.Remove of the pid file, return.
StopKill(f) ==
  \E k \in SignalOutcomes(sp.target) :
    /\ Deferred
    /\ watcher' = watcher
    /\ IF k = "ok"
       THEN /\ proc' = ProcAfterKill(sp.target)
            /\ \E rm \in RemoveOutcomes :
               /\ sp' = [f EXCEPT !.kills = 1, !.killAt = f.el, !.rms = 1,
                                  !.rmFailed = (rm = "fail"),
                                  !.exitedAtRet = TRUE]
               /\ ReturnTo("Stop", IF rm = "ok" THEN "nil" ELSE "remove_error",
                           inRestart)
       ELSE /\ proc' = proc
            /\ sp' = [f EXCEPT !.kills = 1, !.killAt = f.el,
                               !.exitedAtRet = Exited(sp.target)]
            /\ ReturnTo("Stop", "kill_error", inRestart)

\* out2: case <-tick
StopEscTick ==
  /\ pc = "stop_escalate"
  /\ sp.tickBuf \/ ~WaitReady(wait)
  /\ UNCHANGED <<envVars, wait, logFile, root, runs, lastGraph, st>>
  /\ LET at == IF sp.tickBuf THEN sp.el ELSE NextStopTick(sp.el)
         f == [sp EXCEPT !.el = at, !.tickBuf = FALSE, !.i = sp.i + 1,
                         !.firstEscAt = IF sp.firstEscAt < 0 THEN at
                                        ELSE sp.firstEscAt]
     IN
     IF f.i > MaxAttempt
     THEN StopKill(f)
     ELSE \E s \in SignalOutcomes(sp.target) :
          /\ UNCHANGED <<proc, watcher>>
          /\ IF s = "ok"
             THEN /\ sp' = [f EXCEPT !.sigs = sp.sigs + 1,
                                     !.escSigs = sp.escSigs + 1]
                  /\ UNCHANGED <<cmd, closes, pc, inRestart, last>>
             ELSE /\ sp' = [f EXCEPT !.exitedAtRet = Exited(sp.target)]
                  /\ Deferred
                  /\ ReturnTo("Stop", "signal_error", inRestart)

Kill ==
  /\ pc = "idle"
  /\ st' = NoStart
  /\ UNCHANGED <<envVars, wait, logFile, root, runs, lastGraph, watcher>>
  /\ IF NotStarted
     THEN /\ sp' = NoStop
          /\ ReturnTo("Kill", "not_started", FALSE)
          /\ UNCHANGED <<cmd, closes, proc>>
     ELSE \E k \in SignalOutcomes(cmd) :
          LET f == [NoStop EXCEPT !.target = cmd, !.passed = TRUE, !.kills = 1,
                                  !.killAt = 0]
          IN
          /\ Deferred
          /\ IF k = "ok"
             THEN /\ proc' = ProcAfterKill(cmd)
                  /\ \E rm \in RemoveOutcomes :
                     /\ sp' = [f EXCEPT !.rms = 1, !.rmFailed = (rm = "fail"),
                                        !.exitedAtRet = TRUE]
                     /\ ReturnTo("Kill", IF rm = "ok" THEN "nil" ELSE "remove_error",
                                 FALSE)
             ELSE /\ proc' = proc
                  /\ sp' = [f EXCEPT !.exitedAtRet = Exited(cmd)]
                  /\ IF k = "panic" THEN PanicIn("Kill")
                     ELSE ReturnTo("Kill", "kill_error", FALSE)

\* ---------------------------------------------------------------- Restart
\* d.Stop()
Restart ==
  /\ pc = "idle"
  /\ runs < MaxRuns
  /\ StopEnter(TRUE)

\* if DOCKER_REMAP_ROOT != "" { d.root = filepath.Dir(d.root) }; d.Start(...)
RestartStart ==
  /\ pc = "restart_start"
  /\ StartBegin(IF remapRoot THEN Dir(root) ELSE root)

\* ------------------------------------------------- subprocess and watcher
\* The daemon subprocess ends (on its own, or as its reaction to a signal).
DaemonExit(r) ==
  /\ proc[r] = "running"
  /\ proc' = [proc EXCEPT ![r] = "exited"]
  /\ UNCHANGED <<envVars, cmd, wait, logFile, root, runs, lastGraph, watcher, closes,
                 pc, inRestart, st, sp, last>>

\* go func: d.cmd.Wait() returns once the subprocess has ended; the goroutine
\* then blocks in  wait <- ...
WatcherReap(r) ==
  /\ watcher[r] = "waiting"
  /\ proc[r] = "exited"
  /\ proc' = [proc EXCEPT ![r] = "reaped"]
  /\ watcher' = [watcher EXCEPT ![r] = "sending"]
  /\ UNCHANGED <<envVars, cmd, wait, logFile, root, runs, lastGraph, closes,
                 pc, inRestart, st, sp, last>>

\* go func: close(wait), after the send has been received
WatcherClose(r) ==
  /\ watcher[r] = "sent"
  /\ watcher' = [watcher EXCEPT ![r] = "closed"]
  /\ UNCHANGED <<envVars, cmd, wait, logFile, root, runs, lastGraph, proc, closes,
                 pc, inRestart, st, sp, last>>

Next ==
  \/ Start
  \/ StartGiveUp
  \/ StartWaitArm
  \/ StartTimerArm
  \/ StartQuery
  \/ Stop
  \/ StopWaitArm
  \/ StopWindowTimeout
  \/ StopEscTick
  \/ Kill
  \/ Restart
  \/ RestartStart
  \/ \E r \in Runs : DaemonExit(r)
  \/ \E r \in Runs : WatcherReap(r)
  \/ \E r \in Runs : WatcherClose(r)

Spec == Init /\ [][Next]_vars

\* ==================================== construction, arguments, busybox
\* Strings the code searches or parses are sequences of their characters.
\* The flag names StartWithLogFile searches for.
FlagLogLevel ==
  <<"-", "-", "l", "o", "g", "-", "l", "e", "v", "e", "l">>
FlagD ==
  <<"-", "D">>
FlagDebug ==
  <<"-", "-", "d", "e", "b", "u", "g">>
FlagStorageDriver ==
  <<"-", "-", "s", "t", "o", "r", "a", "g", "e", "-", "d", "r", "i", "v",
    "e", "r">>

\* Extra arguments a test may pass to Start.
ArgLogLevelWarn ==
  <<"-", "-", "l", "o", "g", "-", "l", "e", "v", "e", "l", "=", "w", "a",
    "r", "n">>
ArgDebug ==
  <<"-", "-", "d", "e", "b", "u", "g">>
ArgStorageDriverVfs ==
  <<"-", "-", "s", "t", "o", "r", "a", "g", "e", "-", "d", "r", "i", "v",
    "e", "r", "=", "v", "f", "s">>
ArgLabel ==
  <<"-", "-", "l", "a", "b", "e", "l", "=", "a", "-", "D", "b">>
ArgIcc ==
  <<"-", "-", "i", "c", "c", "=", "f", "a", "l", "s", "e">>

ArgSamples == {ArgLogLevelWarn, FlagD, ArgDebug, ArgStorageDriverVfs, ArgLabel, ArgIcc}

\* The vectors of at most MaxArgs extra arguments.
ArgVectors == UNION {[1..n -> ArgSamples] : n \in 0..MaxArgs}

\* Values of DOCKER_USERLANDPROXY.
ProxyEnvSamples == {"", "true", "1", "false", "0", "junk"}

\* strings.Contains(a, sub)
Contains(a, sub) ==
  \E i \in 1..(Len(a) - Len(sub) + 1) : SubSeq(a, i, i + Len(sub) - 1) = sub

\* The name of the flag an argument sets: the argument up to its first "=".
FlagName(a) ==
  IF \E i \in 1..Len(a) : a[i] = "="
  THEN SubSeq(a, 1, (CHOOSE i \in 1..Len(a) :
                        a[i] = "=" /\ \A j \in 1..(i - 1) : a[j] # "=") - 1)
  ELSE a

\* foundLog / foundSd of StartWithLogFile, over all provided arguments.
foundLog(pa) ==
  \E i \in 1..Len(pa) :
    Contains(pa[i], FlagLogLevel) \/ Contains(pa[i], FlagD) \/ Contains(pa[i], FlagDebug)

foundSd(pa) == \E i \in 1..Len(pa) : Contains(pa[i], FlagStorageDriver)

\* strconv.ParseBool
ParseBool(str) ==
  IF str \in {"1", "t", "T", "TRUE", "true", "True"} THEN [val |-> TRUE, err |-> FALSE]
  ELSE IF str \in {"0", "f", "F", "FALSE", "false", "False"}
  THEN [val |-> FALSE, err |-> FALSE]
  ELSE [val |-> FALSE, err |-> TRUE]

\* fmt.Sprintf("%t", b)
FormatBool(b) == IF b THEN "true" ELSE "false"

\* d.sock(): unix://<folder>/docker.sock
sock == [proto |-> "unix", addr |-> Append(daemonFolder, "docker.sock")]

\* opts.DefaultUnixSocket, and opts.DefaultHTTPHost:opts.DefaultTLSHTTPPort
DefaultUnixSocket == [proto |-> "unix", addr |-> <<"/", "var", "run", "docker.sock">>]
DefaultTLSHost == [proto |-> "tcp", addr |-> <<"DefaultHTTPHost", "DefaultTLSHTTPPort">>]

\* getClientConfig: the endpoint the readiness poll and the /info query use.
clientConfigAddr ==
  IF useDefaultTLSHost THEN DefaultTLSHost
  ELSE IF useDefaultHost THEN DefaultUnixSocket
  ELSE [proto |-> "unix", addr |-> Append(daemonFolder, "docker.sock")]

\* Cmd: args := []string{"--host", d.sock(), name}
CmdHost == sock

\* The endpoint the daemon listens on: the value of --host in the vector, or,
\* without one, the default that getClientConfig takes the daemon to use.
ListenHost(a) ==
  IF \E i \in 1..Len(a.base) : a.base[i][1] = "--host"
  THEN (a.base[CHOOSE i \in 1..Len(a.base) : a.base[i][1] = "--host"])[2]
  ELSE IF useDefaultTLSHost THEN DefaultTLSHost ELSE DefaultUnixSocket

\* The value of --userland-proxy= in the vector.
UserlandProxyFlag(a) ==
  (a.base[CHOOSE i \in 1..Len(a.base) : a.base[i][1] = "--userland-proxy"])[2]

\* Some element of seq satisfies: it is the flag f.
HasFlag(seq, f) == \E i \in 1..Len(seq) : seq[i][1] = f

\* NewDaemon: userlandProxy from DOCKER_USERLANDPROXY
NewDaemon ==
  /\ hpc = "env"
  /\ userlandProxy' =
       (IF envUserlandProxy # ""
        THEN LET p == ParseBool(envUserlandProxy) IN
             IF p.err THEN p.val ELSE TRUE
        ELSE TRUE)
  /\ hpc' = "new"
  /\ UNCHANGED <<useDefaultTLSHost, tlsFixtures, remapRoot, lifeVars, useDefaultHost,
                 envUserlandProxy, storageDriver, providedArgs, args, bb>>

\* StartWithLogFile, lines 143-177: the argument vector.  An element of base
\* is a flag with its value; provided holds the caller's arguments, appended
\* last.
StartArgs(pa) ==
  LET a0 == << <<"daemon">>,
               <<"--containerd", "/var/run/docker/libcontainerd/docker-containerd.sock">>,
               <<"--graph", root>>,
               <<"--exec-root", Append(daemonFolder, "exec-root")>>,
               <<"--pidfile", Append(daemonFolder, "docker.pid")>>,
               <<"--userland-proxy", FormatBool(userlandProxy)>> >>
      a1 == IF ~(useDefaultHost \/ useDefaultTLSHost)
            THEN Append(a0, <<"--host", sock>>) ELSE a0
      a2 == IF remapRoot THEN Append(a1, <<"--userns-remap", "DOCKER_REMAP_ROOT">>) ELSE a1
      a3 == IF ~foundLog(pa) THEN Append(a2, <<"--debug">>) ELSE a2
      a4 == IF storageDriver # "" /\ ~foundSd(pa)
            THEN Append(a3, <<"--storage-driver", storageDriver>>) ELSE a3
  IN [base |-> a4, provided |-> pa]

BuildArgs ==
  /\ hpc = "new"
  /\ args' = StartArgs(providedArgs)
  /\ hpc' = "built"
  /\ UNCHANGED <<useDefaultTLSHost, tlsFixtures, remapRoot, lifeVars, useDefaultHost,
                 envUserlandProxy, userlandProxy, storageDriver, providedArgs, bb>>

\* A variant of LoadBusybox that removes the archive before the import.
LoadBusyboxRemovesFirst ==
  /\ hpc = "built"
  /\ bb.calls < MaxLoads
  /\ \E load \in {"ok", "fail"} :
       bb' = [bb EXCEPT !.calls = bb.calls + 1, !.archiveBefore = bb.archive,
                        !.afterFailedLoad = (bb.res = "load_error"),
                        !.exported = ~bb.archive, !.imported = TRUE,
                        !.loadOk = (load = "ok"), !.removed = TRUE,
                        !.archive = FALSE,
                        !.res = IF load = "ok" THEN "nil" ELSE "load_error"]
  /\ UNCHANGED <<useDefaultTLSHost, tlsFixtures, remapRoot, lifeVars, useDefaultHost,
                 envUserlandProxy, userlandProxy, storageDriver, providedArgs, args, hpc>>

\* LoadBusybox: os.Stat, docker save when the archive is absent, d.Cmd("load"),
\* os.Remove.
LoadBusybox ==
  /\ hpc = "built"
  /\ bb.calls < MaxLoads
  /\ LET f == [bb EXCEPT !.calls = bb.calls + 1, !.archiveBefore = bb.archive,
                         !.afterFailedLoad = (bb.res = "load_error"),
                         !.exported = FALSE, !.imported = FALSE, !.loadOk = FALSE,
                         !.removed = FALSE]
     IN
     \E stat \in (IF bb.archive THEN {"ok", "error"} ELSE {"notexist", "error"}),
        save \in {"ok", "fail"}, load \in {"ok", "fail"}, rm \in {"ok", "fail"} :
       IF stat = "error"
       THEN bb' = [f EXCEPT !.res = "stat_error"]
       ELSE IF stat = "notexist" /\ save = "fail"
       THEN bb' = [f EXCEPT !.exported = TRUE, !.res = "save_error"]
       ELSE IF load = "fail"
       THEN bb' = [f EXCEPT !.exported = (stat = "notexist"), !.archive = TRUE,
                            !.imported = TRUE, !.res = "load_error"]
       ELSE bb' = [f EXCEPT !.exported = (stat = "notexist"), !.imported = TRUE,
                            !.loadOk = TRUE, !.removed = (rm = "ok"),
                            !.archive = (rm # "ok"), !.res = "nil"]
  /\ UNCHANGED <<useDefaultTLSHost, tlsFixtures, remapRoot, lifeVars, useDefaultHost,
                 envUserlandProxy, userlandProxy, storageDriver, providedArgs, args, hpc>>

\* The inputs of construction and of the argument vector.
SetupInit ==
  /\ useDefaultTLSHost \in BOOLEAN
  /\ tlsFixtures = TRUE
  /\ remapRoot \in BOOLEAN
  /\ InitLife
  /\ useDefaultHost \in BOOLEAN
  /\ envUserlandProxy \in ProxyEnvSamples
  /\ userlandProxy = TRUE
  /\ storageDriver \in {"", "vfs"}
  /\ providedArgs \in ArgVectors
  /\ args = NoArgs
  /\ bb = NoBusybox
  /\ hpc = "env"

SetupNext == NewDaemon \/ BuildArgs \/ LoadBusybox

SetupSpec == SetupInit /\ [][SetupNext]_vars

\* ================================================================== claims
StopReturned == last.op = "Stop" /\ last.res # "panic"
KillReturned == last.op = "Kill" /\ last.res # "panic"
StartReturned == last.op = "Start"

\* C1: a Stop that passed the "daemon not started" check never returns before
\* the daemon process has exited or a hard kill has been issued on it.
C1_StopReturnsAfterExitOrKill ==
  (StopReturned /\ sp.passed) => (sp.exitedAtRet \/ sp.kills >= 1)

\* C1, the state it fails in: Stop returned "could not send signal" while the
\* daemon was still running and no Process.Kill had been called.
C1_ReturnedWhileRunning ==
  StopReturned /\ sp.passed /\ last.res = "signal_error"
    /\ ~sp.exitedAtRet /\ sp.kills = 0

\* C2: whenever Stop or Kill returns, d.cmd is nil and the log file attached
\* by the last Start is closed.
C2_HandleClearedLogClosed ==
  (StopReturned \/ KillReturned) =>
     (cmd = 0 /\ (logFile # 0 => closes[logFile] >= 1))

\* C2, the state it fails in: after a Start whose spawn failed on a fresh
\* instance, Stop returns "daemon not started" with d.cmd set and the log open.
C2_NotStartedLeavesHandle ==
  StopReturned /\ last.res = "not_started" /\ cmd # 0 /\ closes[logFile] = 0

\* C3: a Stop called directly after a Stop returns "daemon not started", sends
\* no signal and closes no log file a second time.
C3_SecondStopNotStarted ==
  (StopReturned /\ sp.afterStop) =>
     /\ last.res = "not_started"
     /\ ~sp.passed
     /\ sp.sigs = 0
     /\ sp.kills = 0
     /\ \A r \in Runs : closes[r] <= 1

\* C3, its case: the first Stop ran on a launched daemon and closed its log,
\* and the second Stop has returned.
C3_Witness ==
  StopReturned /\ sp.afterStop /\ logFile # 0 /\ closes[logFile] = 1
    /\ proc[logFile] # "nospawn"

\* C4: Stop issues its one hard kill only after the 15s window has elapsed and
\* then at least 4 escalation attempts were made, one second apart, each
\* re-sending the interrupt and incrementing the attempt counter.
C4_KillAfterFourEscalations ==
  (StopReturned /\ sp.kills >= 1) =>
     /\ sp.kills = 1
     /\ sp.escSigs >= 4
     /\ sp.i >= 1 + 4
     /\ sp.firstEscAt >= StopWindow + StopTickInterval
     /\ sp.killAt >= StopWindow + 4 * StopTickInterval

\* C4, the state it fails in: the kill is issued after three re-sent
\* interrupts, the first of them at the very end of the 15s window.
C4_KillAfterThreeResends ==
  StopReturned /\ sp.kills = 1 /\ sp.escSigs = 3 /\ sp.sigs = 4 /\ sp.i = 5
    /\ sp.firstEscAt = StopWindow
    /\ sp.killAt = StopWindow + 3 * StopTickInterval

\* The caller is inside the readiness loop of Start, or its root query.
InStart == pc \in {"start_loop", "start_query"}

\* A step of the caller inside Start.
StartStep == StartGiveUp \/ StartWaitArm \/ StartTimerArm \/ StartQuery

\* The goroutine that called Start keeps running: a step of Start that is
\* possible is eventually taken.
FairSpec == Spec /\ WF_vars(StartStep)

\* C5: the readiness loop reports the daemon as started if and only if a
\* /_ping attempt completed with a transport-level success, observed strictly
\* before the 5-second deadline and before the loop received the exit signal.
C5_ReportedBeforeDeadline ==
  /\ st.reported <=> st.pingOk
  /\ pc = "start_query" =>
       /\ st.el < StartDeadlineSecs * UnitsPerSec
       /\ watcher[st.run] \in {"waiting", "sending"}

\* C5 as amended: the loop reports the daemon as started if and only if a
\* /_ping attempt completed with a transport-level success, in an iteration
\* whose deadline check at the loop head had passed (at most 5 whole seconds
\* counted) and before the loop received the exit signal.
C5_ReportedFromCheckedIteration ==
  /\ [](st.reported <=> st.pingOk)
  /\ [][(pc' = "start_query" /\ pc # "start_query") =>
          /\ pc = "start_loop"
          /\ ((st.phase + st.el) \div UnitsPerSec) - (st.phase \div UnitsPerSec)
               <= StartDeadlineSecs
          /\ st'.el >= st.el
          /\ watcher[st.run] \in {"waiting", "sending"}]_vars

\* C5, its case: the success was observed 5 seconds or more after the start.
C5_Witness ==
  pc = "start_query" /\ st.reported /\ st.pingOk
    /\ st.el >= StartDeadlineSecs * UnitsPerSec

\* C6: if the daemon process exits during startup before any /_ping attempt
\* succeeded, Start returns "Daemon exited during startup", and neither the
\* "never started" error nor the per-attempt timeout error.
C6_ExitGivesExitedDuringStartup ==
  (StartReturned /\ st.run # 0 /\ st.exitAvail /\ ~st.pingOk) =>
     last.res = "exited_during_startup"

\* C6 as amended: a poll iteration in which the exit is ready on d.wait, the
\* deadline check has not fired and no tick is pending consumes the exit only
\* by returning "Daemon exited during startup"; a run in which the exit was ready
\* and no /_ping had succeeded ends with "Daemon exited during startup", or
\* with "never started" when the deadline check fires first, and never with
\* the per-attempt timeout error.
C6_ExitWinsWhenNoTickPending ==
  /\ [](StartReturned /\ st.run # 0 /\ st.exitAvail /\ ~st.pingOk
          => last.res \in {"exited_during_startup", "never_started"})
  /\ [][(/\ pc = "start_loop" /\ WaitReady(wait) /\ ~st.tickBuf
          /\ ((st.phase + st.el) \div UnitsPerSec) - (st.phase \div UnitsPerSec)
                <= StartDeadlineSecs
          /\ ~(pc' = "start_loop" /\ WaitReady(wait)'))
          => last'.res = "exited_during_startup"]_vars

\* C6, its case: the exit was received by the loop before any ping succeeded.
C6_Witness ==
  StartReturned /\ st.exitAvail /\ ~st.pingOk /\ st.exited
    /\ last.res = "exited_during_startup"

\* C7: if no /_ping attempt ever succeeds at the transport level and the
\* process never exits, Start terminates, and it returns "Daemon exited and
\* never started", after more than 5 seconds, and nothing else.
C7_NeverStartedAfterDeadline ==
  /\ [](StartReturned /\ st.run # 0 /\ last.res \notin {"spawn_failed", "cfg_error"}
          /\ ~st.exited /\ ~st.pingOk
        => /\ last.res = "never_started"
           /\ st.gaveUpAt > StartDeadlineSecs * UnitsPerSec)
  /\ (InStart ~> ~InStart)

\* C7, its case: Start gave up on a daemon that was still running.
C7_Witness ==
  StartReturned /\ last.res = "never_started" /\ ~st.exited /\ ~st.pingOk
    /\ proc[st.run] = "running"

\* C8: on every path by which Stop ends with the daemon process terminated
\* (exit during the 15s window, exit during the escalation loop, force kill)
\* Stop has attempted to remove the pid file, and a failed removal is Stop's
\* error.
C8_PidFileRemovedOnEveryPath ==
  (StopReturned /\ last.res \in {"exit_result", "nil", "remove_error"}) =>
     /\ sp.rms = 1
     /\ sp.rmFailed <=> last.res = "remove_error"

\* C8 as amended: after a successful force kill Stop has attempted to remove
\* the pid file exactly once and a failed removal is Stop's error; when the
\* process exits during the 15s window or the escalation loop Stop returns
\* the exit result without attempting the removal.
C8_PidFileRemovedAfterKill ==
  StopReturned =>
     /\ (sp.kills = 1 /\ last.res # "kill_error") =>
           /\ sp.rms = 1
           /\ last.res = (IF sp.rmFailed THEN "remove_error" ELSE "nil")
     /\ (last.res \in {"exit_result", "kill_error"}) => (sp.rms = 0 /\ ~sp.rmFailed)
     /\ sp.rms = 1 => sp.kills = 1

\* C8, its case: the force kill succeeded and the removal of the pid file
\* failed.
C8_Witness ==
  StopReturned /\ sp.kills = 1 /\ sp.rms = 1 /\ sp.rmFailed
    /\ last.res = "remove_error"

\* C9: Start returns success only when d.root holds the directory reported by
\* a successful /info query of this boot; every failure of the query makes
\* Start return an error.
C9_SuccessOnlyWithReportedRoot ==
  (StartReturned /\ last.res = "nil") =>
     (st.info = "ok" /\ root = DockerRootDir(lastGraph))

\* C9, the state it fails in: /info answered with a status other than 200 and
\* Start returned nil with d.root == "".
C9_Non200ReturnsNil ==
  StartReturned /\ last.res = "nil" /\ st.info = "non200" /\ root = <<>>

\* C10: with a user-namespace remap, the --graph argument of a daemon launched
\* by Restart equals the --graph argument of the previous launch.
C10_RestartKeepsGraph ==
  (remapRoot /\ st.viaRestart /\ st.run > 1 /\ proc[st.run - 1] # "nospawn") =>
     lastGraph = st.prevGraph

\* C10, the state it fails in: the previous Start failed before it corrected
\* d.root, and Restart launched the daemon on the parent of the previous
\* --graph directory.
C10_RestartUnnestsUncorrectedRoot ==
  remapRoot /\ st.viaRestart /\ st.run > 1 /\ proc[st.run - 1] # "nospawn"
    /\ st.prevGraph = daemonRoot /\ lastGraph = daemonFolder

\* C11: at most one daemon subprocess launched by the instance is alive at any
\* time.
C11_AtMostOneAlive ==
  Cardinality({r \in Runs : proc[r] = "running"}) <= 1

\* C11, the state it fails in: Start has launched a second subprocess while
\* the one launched before is still running.
C11_TwoDaemonsRunning ==
  \E r1, r2 \in Runs : r1 < r2 /\ proc[r1] = "running" /\ proc[r2] = "running"

\* C13: a /_ping answered with a status other than 200 counts as daemon-up:
\* the readiness loop has ended and Start is at its root query, from which it
\* returns what the query gives, as after a 200.
C13_Non200CountsAsUp ==
  /\ [](st.ping \in {"okOther", "ok200"} => (pc = "start_query" /\ st.reported))
  /\ [][(pc = "start_query" /\ st.ping = "okOther" /\ pc' # pc)
          => /\ last'.op = "Start"
             /\ last'.res = (IF queryRootDir(st'.info, lastGraph).err
                             THEN "info_error" ELSE "nil")
             /\ st'.info \in InfoOutcomes(st.run)]_vars

\* C13, its case: the ping was answered with a status other than 200.
C13_Witness ==
  pc = "start_query" /\ st.ping = "okOther" /\ st.reported

\* C14: a /_ping attempt that takes more than 2 seconds makes Start return
\* (the "timeout: daemon does not respond" error): Start is never in its loop
\* for a further attempt, nor at its root query, after such an attempt.
C14_SlowPingGivesTimeout ==
  InStart => ~st.slow

\* C14, the state it fails in: after an attempt of more than 2 seconds that
\* failed, Start is back in its loop for the next attempt.
C14_PollsOnAfterSlowPing ==
  pc = "start_loop" /\ st.slow /\ st.ping = "err"

\* C15: the watcher of a launch sends once, the channel is closed only after
\* that send was received, nothing is sent after it, and every result a
\* consumer (Start's loop or Stop) takes from d.wait is a value the watcher
\* was sending at that moment: no result is received twice and none is read
\* from the closed channel.
C15_ExitResultDeliveredOnce ==
  [][/\ \A r \in Runs :
          /\ (watcher'[r] = "sending" /\ watcher[r] # "sending")
                => watcher[r] = "waiting"
          /\ (watcher'[r] = "sent" /\ watcher[r] # "sent")
                => (watcher[r] = "sending" /\ wait = r /\ last' # last)
          /\ (watcher'[r] = "closed" /\ watcher[r] # "closed")
                => watcher[r] = "sent"
          /\ watcher[r] \in {"sent", "closed"} => watcher'[r] \in {"sent", "closed"}
     /\ (last' # last /\ last'.res \in {"exited_during_startup", "exit_result"})
          => (wait # 0 /\ watcher[wait] = "sending" /\ watcher'[wait] = "sent")]_vars

\* C15, its case: Stop received the exit result and the watcher closed the
\* channel.
C15_Witness ==
  StopReturned /\ last.res = "exit_result" /\ sp.target # 0
    /\ watcher[sp.target] = "closed"

\* C19: whenever Stop or Kill has passed its "daemon not started" check, d.cmd
\* has a launched process and d.wait is the channel made for that d.cmd.
C19_StopTargetsSpawnedProcess ==
  sp.passed => (proc[sp.target] \notin {"unborn", "nospawn"} /\ wait = sp.target)

\* C19, the state it fails in: d.cmd is the Cmd of a failed spawn (nil
\* Process), d.wait is the channel of an earlier launch, the check passed and
\* the call panicked.
C19_PanicOnFailedSpawn ==
  sp.passed /\ proc[sp.target] = "nospawn" /\ wait # 0 /\ wait # sp.target
    /\ pc = "panicked"

\* A step of the caller inside Stop, or from Stop to Start inside Restart.
StopStep == StopWaitArm \/ StopWindowTimeout \/ StopEscTick \/ RestartStart

\* A step of the exit watcher of launch r.
WatcherStep(r) == WatcherReap(r) \/ WatcherClose(r)

\* Goroutines keep running: the caller inside an operation and every watcher
\* take the steps they can take.  Nothing forces the test to call a further
\* operation, or the daemon to exit.
LiveSpec ==
  /\ Spec
  /\ WF_vars(StartStep)
  /\ WF_vars(StopStep)
  /\ \A r \in Runs : WF_vars(WatcherStep(r))

\* C20: when the sequence of operations ends with Stop or Kill returning, the
\* watcher of every launched subprocess that has ended eventually has its
\* send received and closes the channel.
C20_WatchersTerminate ==
  \A r \in Runs :
    (<>[](pc = "idle" /\ (StopReturned \/ KillReturned)) /\ <>Exited(r))
      => <>(watcher[r] = "closed")

\* C20, the state the watcher stays in: Kill returned nil, and the watcher of
\* the killed subprocess is blocked in its send on a channel nobody reads.
C20_WatcherBlockedAfterKill ==
  KillReturned /\ last.res = "nil" /\ pc = "idle" /\ sp.target # 0
    /\ watcher[sp.target] = "sending"

\* The argument sets the log-level or debug flag: its flag name is
\* --log-level, -D or --debug.
IsLogFlag(a) == FlagName(a) \in {FlagLogLevel, FlagD, FlagDebug}

\* C12: the vector Start builds has an injected --debug if and only if none
\* of the caller's extra arguments is a --log-level, -D or --debug flag.
C12_DebugInjectedIffNoLogFlag ==
  hpc = "built" =>
     (HasFlag(args.base, "--debug")
        <=> ~\E i \in 1..Len(args.provided) : IsLogFlag(args.provided[i]))

\* C12, the state it fails in: no extra argument is a log-level or debug
\* flag, one of them contains "-D" inside its value, and --debug is missing.
C12_ValueWithDashDSuppressesDebug ==
  hpc = "built" /\ ~HasFlag(args.base, "--debug")
    /\ Len(args.provided) > 0
    /\ \A i \in 1..Len(args.provided) : ~IsLogFlag(args.provided[i])

\* C16: LoadBusybox removes busybox.tar only after a successful import: after
\* a failed import the archive exists, the call that follows skips the export
\* and imports again, and the export runs only when the archive was absent.
C16_ArchiveRemovedAfterImport ==
  /\ bb.res = "load_error" => bb.archive
  /\ bb.removed => bb.loadOk
  /\ (bb.archiveBefore /\ ~bb.archive) => (bb.loadOk /\ bb.removed)
  /\ bb.exported => ~bb.archiveBefore
  /\ (bb.calls > 0 /\ bb.archiveBefore /\ bb.res # "stat_error")
        => (~bb.exported /\ bb.imported)
  /\ (bb.afterFailedLoad /\ bb.res # "stat_error") => (~bb.exported /\ bb.imported)

\* C16, its case: the call after a failed import found the archive, skipped
\* the export, imported successfully and removed the archive.
C16_Witness ==
  bb.afterFailedLoad /\ bb.archiveBefore /\ ~bb.exported /\ bb.imported
    /\ bb.loadOk /\ bb.removed /\ ~bb.archive

\* C17: in every connection mode the endpoint the daemon is started on, the
\* endpoint the readiness poll and the /info query connect to, and the
\* endpoint Cmd passes to the CLI are the same socket.
C17_EndpointsAgree ==
  hpc = "built" =>
     (ListenHost(args) = clientConfigAddr /\ clientConfigAddr = CmdHost)

\* C17, the state it fails in: a default-host instance is started and polled
\* on the default socket while Cmd points the CLI at <folder>/docker.sock.
C17_CmdUsesEphemeralSocket ==
  hpc = "built" /\ useDefaultHost /\ ~useDefaultTLSHost
    /\ ListenHost(args) = DefaultUnixSocket /\ clientConfigAddr = DefaultUnixSocket
    /\ CmdHost # DefaultUnixSocket

\* C18: --userland-proxy is true when DOCKER_USERLANDPROXY is unset or empty,
\* and is the boolean the variable holds when it holds a valid one.
C18_ProxyFlagFollowsEnv ==
  hpc = "built" =>
     /\ envUserlandProxy = "" => UserlandProxyFlag(args) = "true"
     /\ (envUserlandProxy # "" /\ ~ParseBool(envUserlandProxy).err)
          => UserlandProxyFlag(args) = FormatBool(ParseBool(envUserlandProxy).val)

\* C18, the state it fails in: DOCKER_USERLANDPROXY=false and the daemon gets
\* --userland-proxy=true.
C18_FalseGivesTrue ==
  hpc = "built" /\ envUserlandProxy = "false" /\ UserlandProxyFlag(args) = "true"

====
